---- MODULE Spec2Model ----
(***************************************************************************)
(* A model of scripts/snap_seeds.py: the reconciliation of the snaps that  *)
(* the Ubuntu seeds declare with the snap list of the model assertions.    *)
(*                                                                         *)
(* Python strings that the program takes apart (snap names, channels, seed *)
(* lines, the grade) are sequences of one-character strings, so that the   *)
(* regular expression, str.split, str.strip and the substring test are     *)
(* computed as the program computes them.  Python's None is the value      *)
(* None, which is no string of characters.                                 *)
(***************************************************************************)
EXTENDS Naturals, Sequences, FiniteSets, TLC

VARIABLES
    release,          \* the release codename check_snap_seeds is called for
    seeds,            \* seed name -> the HTTP response [status, text]
    store,            \* snap name -> what api.snapcraft.io answers
    disk,             \* file name -> the document on disk, or NoModel
    disk_before,      \* the files as they were when the last call began
    runs,             \* calls of check_snap_seeds made so far
    dry_run,          \* the dry_run argument of the last call
    arch,             \* the arch argument of the last call
    seeded_snaps,     \* locals of the last call, as the call left them
    model_snaps,
    diff_added,       \* added_snaps as line 270 computed it, before the filter
    diff_removed,     \* removed_snaps as line 271 computed it, before the filter
    added_snaps,
    removed_snaps,
    loaded,           \* <<model, model_dangerous>> as fetch_model_assertions gave them
    after_remove,     \* <<model, model_dangerous>> after the removal step
    model,            \* the normal document in memory when the call ended
    model_dangerous,  \* the dangerous document in memory when the call ended
    changed,          \* the value returned (meaningful when not raised)
    raised,           \* the call ended in an exception
    written,          \* the file names the last call wrote
    prev,             \* what the call before the last one did
    snap_args,        \* SpecSnap: the arguments given to SeededSnap(...)
    snap_obj,         \* SpecSnap: the object constructed
    snap_back,        \* SpecSnap: from_seed_line(series, snap_obj.seed_format())
    snap_pc           \* SpecSnap: "new" | "built" | "parsed"

vars == <<release, seeds, store, disk, disk_before, runs, dry_run, arch, seeded_snaps,
          model_snaps, diff_added, diff_removed, added_snaps, removed_snaps,
          loaded, after_remove,
          model, model_dangerous, changed, raised, written, prev,
          snap_args, snap_obj, snap_back, snap_pc>>

run_vars == <<release, seeds, store, disk, disk_before, runs, dry_run, arch, seeded_snaps,
              model_snaps, diff_added, diff_removed, added_snaps, removed_snaps,
          loaded, after_remove,
              model, model_dangerous, changed, raised, written, prev>>

snap_vars == <<snap_args, snap_obj, snap_back, snap_pc>>

(***************************************************************************)
(* Strings                                                                 *)
(***************************************************************************)
None == <<"None">>

S_latest == <<"l", "a", "t", "e", "s", "t">>
S_stable == <<"s", "t", "a", "b", "l", "e">>
S_edge == <<"e", "d", "g", "e">>
S_ubuntu_dash == <<"u", "b", "u", "n", "t", "u", "-">>
S_slash_classic == <<"/", "c", "l", "a", "s", "s", "i", "c">>
S_latest_edge == <<"l", "a", "t", "e", "s", "t", "/", "e", "d", "g", "e">>
S_dangerous == <<"d", "a", "n", "g", "e", "r", "o", "u", "s">>
S_signed == <<"s", "i", "g", "n", "e", "d">>
S_bare == <<"b", "a", "r", "e">>
S_snapd == <<"s", "n", "a", "p", "d">>
S_core == <<"c", "o", "r", "e">>
S_core22 == <<"c", "o", "r", "e", "2", "2">>
S_core24 == <<"c", "o", "r", "e", "2", "4">>
S_marker == <<"*", " ", "s", "n", "a", "p", ":">>
S_2404 == <<"2", "4", ".", "0", "4">>
S_2410 == <<"2", "4", ".", "1", "0">>
S_2310 == <<"2", "3", ".", "1", "0">>

Digits == {"0", "1", "2", "3", "4", "5", "6", "7", "8", "9"}

\* The character class [a-zA-Z0-9_\-.] of snap_regex.
AlphaChars ==
    {"a", "b", "c", "d", "e", "f", "g", "h", "i", "j", "k", "l", "m",
     "n", "o", "p", "q", "r", "s", "t", "u", "v", "w", "x", "y", "z",
     "A", "B", "C", "D", "E", "F", "G", "H", "I", "J", "K", "L", "M",
     "N", "O", "P", "Q", "R", "S", "T", "U", "V", "W", "X", "Y", "Z"}
    \cup Digits \cup {"_", "-", "."}

\* The characters \s matches and str.strip() strips.
SpaceChars == {" ", "\t"}

\* Python's truth value of a string or None.
Truthy(x) == x # None /\ x # <<>>

Drop(s, n) == SubSeq(s, n + 1, Len(s))

StartsWith(s, p) == Len(s) >= Len(p) /\ SubSeq(s, 1, Len(p)) = p

\* The length of the longest prefix of s made of characters of cs: what a
\* greedy [cs]* consumes.
Span(s, cs) ==
    LET ok == {n \in 0..Len(s) : \A i \in 1..n : s[i] \in cs}
    IN  CHOOSE n \in ok : \A m \in ok : m <= n

\* sub in s, for strings.
Contains(s, sub) ==
    \E i \in 0..Len(s) :
        i + Len(sub) <= Len(s) /\ SubSeq(s, i + 1, i + Len(sub)) = sub

\* s.strip()
Strip(s) ==
    LET lead == Span(s, SpaceChars)
        rest == Drop(s, lead)
        ok   == {n \in 0..Len(rest) :
                    \A i \in (Len(rest) - n + 1)..Len(rest) : rest[i] \in SpaceChars}
        trail == CHOOSE n \in ok : \A m \in ok : m <= n
    IN  SubSeq(rest, 1, Len(rest) - trail)

\* s.split("/"): the pieces between the slashes, in order.
RECURSIVE Split(_)
Split(s) ==
    LET slashes == {i \in 1..Len(s) : s[i] = "/"}
    IN  IF slashes = {} THEN <<s>>
        ELSE LET i == CHOOSE j \in slashes : \A k \in slashes : j <= k
             IN  <<SubSeq(s, 1, i - 1)>> \o Split(Drop(s, i))

(***************************************************************************)
(* class SeededSnap                                                        *)
(***************************************************************************)
\* core_regex.match(name): ^core(\d\d)?$
core_regex_match(name) ==
    \/ name = S_core
    \/ /\ Len(name) = 6
       /\ SubSeq(name, 1, 4) = S_core
       /\ name[5] \in Digits
       /\ name[6] \in Digits

\* SeededSnap.__init__
SeededSnap(series, name, track, channel, branch, is_classic) ==
    [name       |-> name,
     track      |-> IF Truthy(track) THEN track ELSE S_latest,
     channel    |-> IF Truthy(channel) THEN channel ELSE S_stable,
     branch     |-> IF \/ (~Truthy(track) /\ ~Truthy(branch) /\ core_regex_match(name))
                       \/ name \in {S_bare, S_snapd}
                    THEN None
                    ELSE IF branch # None THEN branch ELSE S_ubuntu_dash \o series,
     is_classic |-> is_classic]

\* SeededSnap.snap_default_channel
snap_default_channel(s) ==
    s.track \o <<"/">> \o s.channel
        \o (IF Truthy(s.branch) THEN <<"/">> \o s.branch ELSE <<>>)

\* SeededSnap.seed_format
seed_format(s) ==
    s.name \o (IF s.is_classic THEN S_slash_classic ELSE <<>>)
        \o <<"=">> \o snap_default_channel(s)

\* The mutation for snap_eq: two snaps of the same name are the same snap.
snap_eq_by_name(s, t) == s.name = t.name

\* SeededSnap.__eq__ (and __hash__): equal renderings.
snap_eq(s, t) == seed_format(s) = seed_format(t)

\* Python's None where a SeededSnap is expected.
NoSnap ==
    [name |-> None, track |-> None, channel |-> None, branch |-> None,
     is_classic |-> FALSE]

\* snap_regex.match(line).groupdict(); the name is None when nothing matches.
\* The pattern is not anchored at its end and every group after the name is
\* optional, so each greedy group takes the longest run it can and a group
\* that cannot match is skipped.
snap_regex_match(line) ==
    LET r0      == Drop(line, Span(line, SpaceChars))
        nl      == Span(r0, AlphaChars)
        r1      == Drop(r0, nl)
        classic == StartsWith(r1, S_slash_classic)
        r2      == IF classic THEN Drop(r1, Len(S_slash_classic)) ELSE r1
        r3      == Drop(r2, 1)
        tl      == Span(r3, AlphaChars)
        r4      == Drop(r3, tl)
        r5      == Drop(r4, 1)
        cl      == Span(r5, AlphaChars)
        r6      == Drop(r5, cl)
        r7      == Drop(r6, 1)
        bl      == Span(r7, AlphaChars)
        chan    == /\ StartsWith(r2, <<"=">>) /\ tl > 0
                   /\ StartsWith(r4, <<"/">>) /\ cl > 0
        br      == chan /\ StartsWith(r6, <<"/">>) /\ bl > 0
    IN  [name    |-> IF nl = 0 THEN None ELSE SubSeq(r0, 1, nl),
         classic |-> nl > 0 /\ classic,
         track   |-> IF nl > 0 /\ chan THEN SubSeq(r3, 1, tl) ELSE None,
         channel |-> IF nl > 0 /\ chan THEN SubSeq(r5, 1, cl) ELSE None,
         branch  |-> IF nl > 0 /\ br THEN SubSeq(r7, 1, bl) ELSE None]

\* The mutation for from_seed_line: without the special case of lines 47-51,
\* so a channel given without a branch gets the default branch.
from_seed_line_default_branch(series, line) ==
    LET snap_data == snap_regex_match(line)
    IN  IF snap_data.name = None THEN NoSnap
        ELSE SeededSnap(series, snap_data.name, snap_data.track,
                        snap_data.channel, snap_data.branch, snap_data.classic)

\* SeededSnap.from_seed_line
from_seed_line(series, line) ==
    LET snap_data == snap_regex_match(line)
    IN  IF snap_data.name = None THEN NoSnap
        ELSE SeededSnap(series,
                        snap_data.name,
                        snap_data.track,
                        snap_data.channel,
                        IF Truthy(snap_data.channel) /\ ~Truthy(snap_data.branch)
                        THEN <<>> ELSE snap_data.branch,
                        snap_data.classic)

(***************************************************************************)
(* Python sets of SeededSnap: __eq__ and __hash__ compare the renderings,  *)
(* so a set keeps one object per rendering, the first one added.           *)
(***************************************************************************)
set_add(S, x) == IF \E y \in S : snap_eq(y, x) THEN S ELSE S \cup {x}

set_diff(S, T) == {x \in S : ~ \E y \in T : snap_eq(x, y)}

(***************************************************************************)
(* The seeds                                                               *)
(***************************************************************************)
SeedNames == <<"minimal", "desktop-minimal">>

\* get_series_version: what distro-info answers, less the " LTS".
get_series_version(rel) ==
    CASE rel = "noble"    -> S_2404
      [] rel = "oracular" -> S_2410
      [] rel = "mantic"   -> S_2310

\* The loop of fetch_snaps_from_seed over response.text.splitlines().
RECURSIVE seed_lines_loop(_, _, _)
seed_lines_loop(series, lines, acc) ==
    IF lines = <<>> THEN acc
    ELSE LET line_stripped == Strip(Head(lines))
             snap == from_seed_line(series, Drop(line_stripped, 7))
         IN  IF StartsWith(line_stripped, S_marker) /\ snap # NoSnap
             THEN seed_lines_loop(series, Tail(lines), set_add(acc, snap))
             ELSE seed_lines_loop(series, Tail(lines), acc)

\* fetch_snaps_from_seed(release, seed, seeded_snaps): the set afterwards.
fetch_snaps_from_seed(rel, seed, acc) ==
    LET response == seeds[seed]
    IN  IF response.status_code # 200 THEN acc
        ELSE seed_lines_loop(get_series_version(rel), response.text, acc)

\* The table of add_implicitly_seeded_snaps.
implicit(rel) ==
    CASE rel = "oracular" -> {S_snapd, S_bare, S_core22, S_core24}
      [] rel = "noble"    -> {S_snapd, S_bare, S_core22}
      [] rel = "mantic"   -> {S_snapd, S_bare, S_core22}

\* Adding the objects of X to the set acc, one by one.  No two objects of X
\* that the callers build have the same rendering, so the order is immaterial.
RECURSIVE set_add_all(_, _)
set_add_all(acc, X) ==
    IF X = {} THEN acc
    ELSE LET x == CHOOSE y \in X : TRUE
         IN  set_add_all(set_add(acc, x), X \ {x})

\* add_implicitly_seeded_snaps(release, seeded_snaps): the set afterwards.
add_implicitly_seeded_snaps(rel, acc) ==
    set_add_all(acc, {SeededSnap(get_series_version(rel), n, None, None, None, FALSE) :
                        n \in implicit(rel)})

(***************************************************************************)
(* The model assertions                                                    *)
(***************************************************************************)
\* Python's None where a model document is expected.
NoModel == [grade |-> None, snaps |-> <<>>]

\* get_model_assertion_name: MODEL_ASSERTION_JSON % (series, arch, suffix),
\* the series being the version with its dots removed.  The three parts
\* stand for the name they are formatted into.
get_model_assertion_name(rel, a, dangerous) ==
    <<SelectSeq(get_series_version(rel), LAMBDA c : c # "."), a,
      IF dangerous THEN "-dangerous" ELSE "">>

\* fetch_model_assertions(release, repository, arch): a file that does not
\* exist gives None.
fetch_model_assertions(rel, a) ==
    <<disk[get_model_assertion_name(rel, a, FALSE)],
      disk[get_model_assertion_name(rel, a, TRUE)]>>

\* save_model_assertion(model, release, repository, arch): the files afterwards.
save_model_assertion(files, m, rel, a) ==
    IF m = NoModel THEN files
    ELSE [files EXCEPT
            ![get_model_assertion_name(rel, a, Contains(m.grade, S_dangerous))] = m]

\* The file save_model_assertion writes for m, in a set; none for None.
save_target(m, rel, a) ==
    IF m = NoModel THEN {}
    ELSE {get_model_assertion_name(rel, a, Contains(m.grade, S_dangerous))}

\* The loop of fetch_snaps_from_model_assertion over model["snaps"].
RECURSIVE model_snaps_loop(_, _, _)
model_snaps_loop(series, entries, acc) ==
    IF entries = <<>> THEN acc
    ELSE LET snap == Head(entries)
             channel_split == Split(snap.default_channel)
             n == Len(channel_split)
             track   == IF n \in {2, 3} THEN channel_split[1] ELSE None
             channel == CASE n = 3 -> channel_split[2]
                          [] n = 2 -> channel_split[2]
                          [] n = 1 -> channel_split[1]
                          [] OTHER -> None
             branch  == CASE n = 3 -> channel_split[3]
                          [] n = 2 -> <<>>
                          [] OTHER -> None
         IN  model_snaps_loop(series, Tail(entries),
                 set_add(acc, SeededSnap(series, snap.name, track, channel,
                                         branch, FALSE)))

\* fetch_snaps_from_model_assertion(release, model)
fetch_snaps_from_model_assertion(rel, m) ==
    model_snaps_loop(get_series_version(rel), m.snaps, {})

(***************************************************************************)
(* The snap store and the exclusion list                                   *)
(***************************************************************************)
\* Python's None where the store's answer is expected: the answer held an
\* "error-list".
NoInfo == [found |-> FALSE, type |-> "", snap_id |-> ""]

\* get_snap_info(snap_name): info["channel-map"][0]["type"] and
\* info["snap-id"] of the answer, or None.
get_snap_info(snap_name) == store[snap_name]

\* The mutation for is_in_sync_exclude_list: gadgets are forgotten.
is_in_sync_exclude_list_kernel_only(snap_name, info) ==
    LET info2 == IF info = NoInfo THEN get_snap_info(snap_name) ELSE info
    IN  info2 # NoInfo /\ info2.type \in {"kernel"}

\* is_in_sync_exclude_list(snap, info)
is_in_sync_exclude_list(snap_name, info) ==
    LET info2 == IF info = NoInfo THEN get_snap_info(snap_name) ELSE info
    IN  info2 # NoInfo /\ info2.type \in {"gadget", "kernel"}

(***************************************************************************)
(* Removing and adding                                                     *)
(***************************************************************************)
\* list.remove(x): the list without its first element equal to x.
list_remove(l, x) ==
    LET i == CHOOSE j \in 1..Len(l) : l[j] = x /\ \A k \in 1..(j - 1) : l[k] # x
    IN  SubSeq(l, 1, i - 1) \o SubSeq(l, i + 1, Len(l))

\* The loop of remove_snaps_from_model_assertion: `for snap in model["snaps"]`
\* walks the list by position i (from 1 here) and ends when i is past the end
\* of the list as it then is, while the body removes from that same list.
RECURSIVE remove_loop(_, _, _)
remove_loop(l, i, snaps) ==
    IF i > Len(l) THEN l
    ELSE LET snap  == l[i]
             found == \E s \in snaps : s.name = snap.name
         IN  IF found /\ ~is_in_sync_exclude_list(snap.name, NoInfo)
             THEN remove_loop(list_remove(l, snap), i + 1, snaps)
             ELSE remove_loop(l, i + 1, snaps)

\* remove_snaps_from_model_assertion(model, snaps): the document afterwards.
remove_snaps_from_model_assertion(m, snaps) ==
    IF m = NoModel THEN m
    ELSE [m EXCEPT !.snaps = remove_loop(m.snaps, 1, snaps)]

\* The loop of add_snaps_to_model_assertion over the snaps in the order the
\* set yields them: the list afterwards, and whether snap_info["snap-id"]
\* raised (snap_info is None), which ends the loop.
RECURSIVE add_loop(_, _, _)
add_loop(l, dangerous, order) ==
    IF order = <<>> THEN [snaps |-> l, raised |-> FALSE]
    ELSE LET snap == Head(order)
             snap_info == get_snap_info(snap.name)
             entry == [name            |-> snap.name,
                       type            |-> "app",
                       default_channel |-> IF dangerous THEN S_latest_edge
                                           ELSE snap_default_channel(snap),
                       id              |-> snap_info.snap_id]
         IN  IF is_in_sync_exclude_list(snap.name, snap_info)
             THEN add_loop(l, dangerous, Tail(order))
             ELSE IF snap_info = NoInfo
             THEN [snaps |-> l, raised |-> TRUE]
             ELSE add_loop(Append(l, entry), dangerous, Tail(order))

\* The mutation for add_snaps_to_model_assertion: the grade is not looked
\* at, so no channel is overridden.
add_snaps_to_model_assertion_no_override(m, order) ==
    IF m = NoModel THEN [model |-> m, raised |-> FALSE]
    ELSE LET r == add_loop(m.snaps, FALSE, order)
         IN  [model |-> [m EXCEPT !.snaps = r.snaps], raised |-> r.raised]

\* add_snaps_to_model_assertion(model, snaps, release): the document
\* afterwards and whether the call raised.
add_snaps_to_model_assertion(m, order) ==
    IF m = NoModel THEN [model |-> m, raised |-> FALSE]
    ELSE LET r == add_loop(m.snaps, Contains(m.grade, S_dangerous), order)
         IN  [model |-> [m EXCEPT !.snaps = r.snaps], raised |-> r.raised]

\* The elements of S in one order.
RECURSIVE SomeOrder(_)
SomeOrder(S) ==
    IF S = {} THEN <<>>
    ELSE LET x == CHOOSE y \in S : TRUE
         IN  <<x>> \o SomeOrder(S \ {x})

Reverse(o) == [i \in 1..Len(o) |-> o[Len(o) + 1 - i]]

\* The orders in which `for snap in snaps` may yield the elements of the set
\* S.  The order of a Python set follows the hashes of its elements, which
\* differ from one process to the next; the model lets it be either of two
\* opposite orders.
Orders(S) == {SomeOrder(S), Reverse(SomeOrder(S))}

(***************************************************************************)
(* The scenarios: the bounds and the inputs the model draws from           *)
(***************************************************************************)
MaxModelLen == 2      \* entries of the normal model after its base snaps
MaxRuns == 2          \* calls of check_snap_seeds in a row

N_vlc == <<"v", "l", "c">>
N_pc == <<"p", "c">>
C_default == <<"l", "a", "t", "e", "s", "t", "/", "s", "t", "a", "b", "l", "e", "/",
               "u", "b", "u", "n", "t", "u", "-", "2", "4", ".", "0", "4">>
C_latest_stable == <<"l", "a", "t", "e", "s", "t", "/", "s", "t", "a", "b", "l", "e">>
C_2_stable == <<"2", "/", "s", "t", "a", "b", "l", "e">>
L_vlc == <<"*", " ", "s", "n", "a", "p", ":", " ", "v", "l", "c">>
L_vlc2 == <<" ", " ", "*", " ", "s", "n", "a", "p", ":", " ", "v", "l", "c", "=",
            "2", "/", "s", "t", "a", "b", "l", "e", " ">>
L_pc_classic == <<"*", " ", "s", "n", "a", "p", ":", " ", "p", "c", "/",
                  "c", "l", "a", "s", "s", "i", "c">>
L_pc == <<"*", " ", "s", "n", "a", "p", ":", " ", "p", "c">>
L_pkg == <<"*", " ", "v", "l", "c">>

Archs == {"amd64", "arm64"}

\* The lists of at most n entries of C, none of them twice.
BoundedSeq(C, n) ==
    {q \in UNION {[1..k -> C] : k \in 0..n} :
        \A i, j \in 1..Len(q) : q[i] = q[j] => i = j}

\* The answers of the two seed URLs.
SeedScenarios ==
    {[sd \in {"minimal", "desktop-minimal"} |->
         IF sd = "minimal" THEN m ELSE d] :
       m \in {[status_code |-> 404, text |-> <<L_pkg>>],
              [status_code |-> 200, text |-> <<L_pkg, L_vlc>>]},
       d \in {[status_code |-> 404, text |-> <<>>],
              [status_code |-> 200, text |-> <<L_vlc2>>],
              [status_code |-> 200, text |-> <<L_pc_classic>>],
              [status_code |-> 200, text |-> <<L_vlc, L_pc>>]}}

Info(type, id) == [found |-> TRUE, type |-> type, snap_id |-> id]

\* The store's answers: the base snaps are known; vlc is an app, a kernel or
\* unknown to the store; pc is an app or a gadget.
Stores ==
    {[n \in {N_vlc, N_pc, S_snapd, S_bare, S_core22} |->
         CASE n = N_vlc    -> v
           [] n = N_pc     -> g
           [] n = S_snapd  -> Info("snapd", "id-snapd")
           [] n = S_bare   -> Info("base", "id-bare")
           [] n = S_core22 -> Info("base", "id-core22")] :
       v \in {Info("app", "id-vlc"), Info("kernel", "id-vlc"), NoInfo},
       g \in {Info("app", "id-pc"), Info("gadget", "id-pc")}}

Entry(st, n, ch) ==
    [name |-> n,
     type |-> IF st[n] = NoInfo THEN "app" ELSE st[n].type,
     default_channel |-> ch,
     id |-> IF st[n] = NoInfo THEN "id-" ELSE st[n].snap_id]

\* The base snaps every model file of the repository lists first.
BaseSnaps(st, ch) ==
    <<Entry(st, S_snapd, ch), Entry(st, S_bare, ch), Entry(st, S_core22, ch)>>

NormalModels(st) ==
    {NoModel} \cup
    {[grade |-> S_signed, snaps |-> BaseSnaps(st, C_latest_stable) \o tail] :
       tail \in BoundedSeq({Entry(st, N_vlc, C_default), Entry(st, N_vlc, C_2_stable),
                            Entry(st, N_pc, C_default), Entry(st, N_pc, S_edge)},
                           MaxModelLen)}

DangerousModels(st) ==
    {NoModel} \cup
    {[grade |-> S_dangerous, snaps |-> BaseSnaps(st, S_latest_edge) \o tail] :
       tail \in {<<>>, <<Entry(st, N_vlc, S_latest_edge)>>}}

FileNames ==
    {get_model_assertion_name("noble", a, d) : a \in Archs, d \in BOOLEAN}

NoCall == [dry_run |-> FALSE, changed |-> FALSE, raised |-> FALSE, saved |-> FALSE]

\* The variables of the SeededSnap specification, at rest.
SnapIdle ==
    /\ snap_args = <<>>
    /\ snap_obj = NoSnap
    /\ snap_back = NoSnap
    /\ snap_pc = "idle"

\* The locals of check_snap_seeds before any call.
NoRun ==
    /\ runs = 0
    /\ disk_before = disk
    /\ dry_run = FALSE
    /\ seeded_snaps = {}
    /\ model_snaps = {}
    /\ diff_added = {}
    /\ diff_removed = {}
    /\ added_snaps = {}
    /\ removed_snaps = {}
    /\ loaded = <<NoModel, NoModel>>
    /\ after_remove = <<NoModel, NoModel>>
    /\ model = NoModel
    /\ model_dangerous = NoModel
    /\ changed = FALSE
    /\ raised = FALSE
    /\ written = {}
    /\ prev = NoCall

Init ==
    /\ release = "noble"
    /\ seeds \in SeedScenarios
    /\ store \in Stores
    /\ arch \in Archs
    /\ \E nm \in NormalModels(store), dm \in DangerousModels(store) :
         disk = [f \in FileNames |->
                    IF f = get_model_assertion_name("noble", "amd64", FALSE) THEN nm
                    ELSE IF f = get_model_assertion_name("noble", "amd64", TRUE) THEN dm
                    ELSE NoModel]
    /\ NoRun
    /\ SnapIdle

\* The arguments SeededSnap(...) is given in the SeededSnap specification.
SnapNames ==
    {N_vlc, S_snapd, S_bare, S_core, S_core22, <<"c", "o", "r", "e", "2">>,
     <<"c", "l", "a", "s", "s", "i", "c">>}

SnapArgs ==
    [series : {S_2404}, name : SnapNames,
     track : {None, <<>>, <<"2">>},
     channel : {None, <<>>, S_edge},
     branch : {None, <<>>, <<"x">>},
     is_classic : BOOLEAN]

InitSnap ==
    /\ release = "noble"
    /\ seeds = [sd \in {"minimal", "desktop-minimal"} |->
                  [status_code |-> 404, text |-> <<>>]]
    /\ store = [n \in {N_vlc} |-> NoInfo]
    /\ arch = "amd64"
    /\ disk = [f \in FileNames |-> NoModel]
    /\ NoRun
    /\ snap_args \in SnapArgs
    /\ snap_obj = NoSnap
    /\ snap_back = NoSnap
    /\ snap_pc = "new"

(***************************************************************************)
(* check_snap_seeds                                                        *)
(***************************************************************************)
\* The filter of lines 274-276: the snaps not on the exclusion list.
not_excluded(S) == {s \in S : ~is_in_sync_exclude_list(s.name, NoInfo)}

\* save_model_assertion(model, ...) and then save_model_assertion(
\* model_dangerous, ...), when changed and not dry_run.
save_models(files, m, md, rel, a) ==
    save_model_assertion(save_model_assertion(files, m, rel, a), md, rel, a)

\* The mutation for should_save: the dry_run argument is not looked at.
should_save_always(ch, d) == ch

\* The condition of line 289: changed and not dry_run.
should_save(ch, d) == ch /\ ~d

\* check_snap_seeds(release, repository, arch, dry_run), from its call to its
\* return or to the exception that ends it.  The models are fetched with the
\* default arch of fetch_model_assertions: line 254 passes none.  Each local
\* is bound once, in the order the function assigns it.
check_snap_seeds(d) ==
    \E ld \in {fetch_model_assertions(release, "amd64")} :
      IF ld[1] = NoModel /\ ld[2] = NoModel
      THEN /\ seeded_snaps' = {}
           /\ model_snaps' = {}
           /\ diff_added' = {}
           /\ diff_removed' = {}
           /\ added_snaps' = {}
           /\ removed_snaps' = {}
           /\ loaded' = ld
           /\ after_remove' = ld
           /\ model' = ld[1]
           /\ model_dangerous' = ld[2]
           /\ changed' = FALSE
           /\ raised' = FALSE
           /\ written' = {}
           /\ disk' = disk
      ELSE
        \E seeded \in {add_implicitly_seeded_snaps(release,
                          fetch_snaps_from_seed(release, SeedNames[2],
                              fetch_snaps_from_seed(release, SeedNames[1], {})))} :
        \E msnaps \in {fetch_snaps_from_model_assertion(
                          release, IF ld[1] # NoModel THEN ld[1] ELSE ld[2])} :
        \E added0 \in {set_diff(seeded, msnaps)} :
        \E removed0 \in {set_diff(msnaps, seeded)} :
        \E added \in {not_excluded(added0)} :
        \E removed \in {not_excluded(removed0)} :
        \E m1 \in {IF removed # {}
                   THEN remove_snaps_from_model_assertion(ld[1], removed)
                   ELSE ld[1]} :
        \E md1 \in {IF removed # {}
                    THEN remove_snaps_from_model_assertion(ld[2], removed)
                    ELSE ld[2]} :
        \E order \in Orders(added) :
        \E a1 \in {IF added # {} THEN add_snaps_to_model_assertion(m1, order)
                   ELSE [model |-> m1, raised |-> FALSE]} :
        \E a2 \in {IF added # {} /\ ~a1.raised
                   THEN add_snaps_to_model_assertion(md1, order)
                   ELSE [model |-> md1, raised |-> FALSE]} :
        \E sv \in {~(a1.raised \/ a2.raised)
                    /\ should_save(removed # {} \/ added # {}, d)} :
            /\ seeded_snaps' = seeded
            /\ model_snaps' = msnaps
            /\ diff_added' = added0
            /\ diff_removed' = removed0
            /\ added_snaps' = added
            /\ removed_snaps' = removed
            /\ loaded' = ld
            /\ after_remove' = <<m1, md1>>
            /\ model' = a1.model
            /\ model_dangerous' = a2.model
            /\ changed' = (removed # {} \/ added # {})
            /\ raised' = (a1.raised \/ a2.raised)
            /\ written' = IF sv THEN save_target(a1.model, release, arch)
                                     \cup save_target(a2.model, release, arch)
                          ELSE {}
            /\ disk' = IF sv THEN save_models(disk, a1.model, a2.model,
                                              release, arch)
                       ELSE disk

\* One call of check_snap_seeds, with either value of dry_run.
CheckSnapSeeds ==
    /\ snap_pc = "idle"
    /\ runs < MaxRuns
    /\ \E d \in BOOLEAN :
         /\ dry_run' = d
         /\ check_snap_seeds(d)
    /\ runs' = runs + 1
    /\ disk_before' = disk
    /\ prev' = [dry_run |-> dry_run, changed |-> changed, raised |-> raised,
                saved |-> written # {}]
    /\ UNCHANGED <<release, seeds, store, arch>>
    /\ UNCHANGED snap_vars

Next == CheckSnapSeeds

Spec == Init /\ [][Next]_vars

(***************************************************************************)
(* The SeededSnap specification: one object is constructed from its        *)
(* arguments, rendered, and parsed back from its rendering.                *)
(***************************************************************************)
Construct ==
    /\ snap_pc = "new"
    /\ snap_obj' = SeededSnap(snap_args.series, snap_args.name, snap_args.track,
                              snap_args.channel, snap_args.branch,
                              snap_args.is_classic)
    /\ snap_pc' = "built"
    /\ UNCHANGED <<snap_args, snap_back>>
    /\ UNCHANGED run_vars

ParseBack ==
    /\ snap_pc = "built"
    /\ snap_back' = from_seed_line(snap_args.series, seed_format(snap_obj))
    /\ snap_pc' = "parsed"
    /\ UNCHANGED <<snap_args, snap_obj>>
    /\ UNCHANGED run_vars

NextSnap == Construct \/ ParseBack

SpecSnap == InitSnap /\ [][NextSnap]_vars

(***************************************************************************)
(* The claims about SeededSnap, under SpecSnap                             *)
(***************************************************************************)
IsBaseName(name) == core_regex_match(name) \/ name \in {S_bare, S_snapd}

NothingSupplied(a) == a.track = None /\ a.channel = None /\ a.branch = None

\* C5: a SeededSnap named bare, snapd or core with two optional digits has
\* branch None exactly when none of track, channel and branch was supplied
\* (an empty string counting as not supplied where that favours the code),
\* and keeps a supplied branch verbatim; any other name with nothing
\* supplied gets latest, stable and ubuntu-<series>.
C5_BranchDefaulting ==
    snap_pc \in {"built", "parsed"} =>
        /\ IsBaseName(snap_args.name) =>
              /\ NothingSupplied(snap_args) => snap_obj.branch = None
              /\ snap_obj.branch = None =>
                    /\ ~Truthy(snap_args.track)
                    /\ ~Truthy(snap_args.channel)
                    /\ ~Truthy(snap_args.branch)
              /\ Truthy(snap_args.branch) => snap_obj.branch = snap_args.branch
        /\ (~IsBaseName(snap_args.name) /\ NothingSupplied(snap_args)) =>
              /\ snap_obj.track = S_latest
              /\ snap_obj.channel = S_stable
              /\ snap_obj.branch = S_ubuntu_dash \o snap_args.series

\* C7: parsing the rendering of a SeededSnap gives an object, and that
\* object renders to the same string (so it is equal to the first and has
\* the same hash).
C7_RenderingRoundTrips ==
    snap_pc = "parsed" =>
        /\ snap_back # NoSnap
        /\ seed_format(snap_back) = seed_format(snap_obj)

\* A core snap with track, channel and branch supplied, and classic, has been
\* rendered and parsed back.
C7_Witness ==
    /\ snap_pc = "parsed"
    /\ snap_args.name = S_core22
    /\ snap_args.track = <<"2">>
    /\ snap_args.channel = S_edge
    /\ snap_args.branch = <<"x">>
    /\ snap_args.is_classic
    /\ snap_back.branch = <<"x">>
    /\ snap_back.is_classic

(***************************************************************************)
(* The claims about check_snap_seeds, under Spec                           *)
(***************************************************************************)
Names(S) == {x.name : x \in S}

EntryNames(m) == {m.snaps[i].name : i \in 1..Len(m.snaps)}

\* The entries of the document m that carry the name n, in order.
EntriesOf(m, n) == SelectSeq(m.snaps, LAMBDA e : e.name = n)

\* The entries a call appended to a document: what follows the list the
\* removal step left.
Appended(before, after) ==
    SubSeq(after.snaps, Len(before.snaps) + 1, Len(after.snaps))

IsExcludedName(n) ==
    n \in DOMAIN store /\ store[n] # NoInfo /\ store[n].type \in {"kernel", "gadget"}

\* C1: after the removal step no entry of either model carries the name of a
\* snap of the filtered removed set.
C1_RemovalComplete ==
    (runs >= 1 /\ removed_snaps # {}) =>
        \A k \in 1..2 : EntryNames(after_remove[k]) \cap Names(removed_snaps) = {}

\* C2: a name whose store metadata says kernel or gadget is in neither the
\* filtered added set nor the filtered removed set, and the entries of that
\* name are, in both models, after the call what they were when loaded.
C2_Exclusion ==
    runs >= 1 =>
        \A n \in DOMAIN store :
            IsExcludedName(n) =>
                /\ n \notin Names(added_snaps)
                /\ n \notin Names(removed_snaps)
                /\ EntriesOf(model, n) = EntriesOf(loaded[1], n)
                /\ EntriesOf(model_dangerous, n) = EntriesOf(loaded[2], n)

\* An excluded name is seeded with one identity and modelled with another,
\* both models list it, and the call changed the models around it.
C2_Witness ==
    /\ runs >= 1
    /\ ~raised
    /\ added_snaps # {}
    /\ removed_snaps # {}
    /\ \E n \in DOMAIN store :
         /\ IsExcludedName(n)
         /\ n \in Names(diff_added)
         /\ n \in Names(diff_removed)
         /\ EntriesOf(loaded[1], n) # <<>>
         /\ EntriesOf(loaded[2], n) # <<>>

\* C3: a dry run leaves every file as it was; the value a call returns is
\* whether the filtered added or removed set is non-empty, whatever dry_run
\* is; and a call that is not a dry run, made after a dry run on the files
\* that dry run left, returns what the dry run returned.
C3_DryRun ==
    /\ (runs >= 1 /\ dry_run) => disk = disk_before
    /\ (runs >= 1 /\ ~raised) =>
          changed = (added_snaps # {} \/ removed_snaps # {})
    /\ (runs >= 2 /\ prev.dry_run /\ ~prev.raised /\ ~dry_run /\ ~raised) =>
          changed = prev.changed

\* A dry run reported a change, and the same call without dry_run reported
\* it too and wrote the files.
C3_Witness ==
    /\ runs >= 2
    /\ prev.dry_run /\ prev.changed /\ ~prev.raised /\ ~prev.saved
    /\ ~dry_run /\ ~raised /\ changed
    /\ disk # disk_before

\* C4: every entry appended to a model has type app and the id the store
\* gives for its name; its default-channel is latest/edge when the model's
\* grade contains "dangerous", and otherwise the rendered channel of the
\* added snap it was built from.
C4_DangerousAdd ==
    runs >= 1 =>
        \A k \in 1..2 :
            LET before == after_remove[k]
                after  == IF k = 1 THEN model ELSE model_dangerous
                new    == Appended(before, after)
            IN  /\ SubSeq(after.snaps, 1, Len(before.snaps)) = before.snaps
                /\ \A i \in 1..Len(new) :
                     /\ new[i].type = "app"
                     /\ new[i].name \in DOMAIN store
                     /\ store[new[i].name] # NoInfo
                     /\ new[i].id = store[new[i].name].snap_id
                     /\ IF Contains(after.grade, S_dangerous)
                        THEN new[i].default_channel = S_latest_edge
                        ELSE \E s \in added_snaps :
                               /\ s.name = new[i].name
                               /\ new[i].default_channel = snap_default_channel(s)

\* A snap seeded on track 2 was appended to both models: with its own
\* channel to the normal one and with latest/edge to the dangerous one.
C4_Witness ==
    /\ runs >= 1
    /\ ~raised
    /\ \E i \in 1..Len(model.snaps) :
         /\ i > Len(after_remove[1].snaps)
         /\ model.snaps[i].default_channel = C_2_stable
    /\ \E i \in 1..Len(model_dangerous.snaps) :
         /\ i > Len(after_remove[2].snaps)
         /\ model_dangerous.snaps[i].name = N_vlc
         /\ model_dangerous.snaps[i].default_channel = S_latest_edge

\* The renderings of the snaps of S named n.
Renderings(S, n) == {seed_format(x) : x \in {y \in S : y.name = n}}

AllRenderings(S) == {seed_format(x) : x \in S}

\* The list l with its entries i and i + 1 exchanged.
Swap(l, i) ==
    [j \in 1..Len(l) |-> IF j = i THEN l[i + 1] ELSE IF j = i + 1 THEN l[i] ELSE l[j]]

\* The model check_snap_seeds compares the seeds with (line 267).
Compared == IF loaded[1] # NoModel THEN loaded[1] ELSE loaded[2]

\* C6: a name seeded and modelled with different renderings (no rendering of
\* it is on both sides) is, by name, in both the added and the removed set
\* of lines 270-271; a name with the same renderings on both sides is in
\* neither; and exchanging two neighbours of the model's snaps list, hence
\* any reordering of it, leaves both sets as they are.
C6_WholeIdentityDiff ==
    (runs >= 1 /\ Compared # NoModel) =>
        /\ \A n \in Names(seeded_snaps) \cap Names(model_snaps) :
             /\ Renderings(seeded_snaps, n) \cap Renderings(model_snaps, n) = {} =>
                   n \in Names(diff_added) /\ n \in Names(diff_removed)
             /\ Renderings(seeded_snaps, n) = Renderings(model_snaps, n) =>
                   n \notin Names(diff_added) /\ n \notin Names(diff_removed)
        /\ \A i \in 1..(Len(Compared.snaps) - 1) :
             LET ms == fetch_snaps_from_model_assertion(
                           release, [Compared EXCEPT !.snaps = Swap(Compared.snaps, i)])
             IN  /\ AllRenderings(set_diff(seeded_snaps, ms)) = AllRenderings(diff_added)
                 /\ AllRenderings(set_diff(ms, seeded_snaps)) = AllRenderings(diff_removed)

\* pc is seeded and modelled with different channels and is in both sets,
\* while vlc is the same on both sides and is in neither.
C6_Witness ==
    /\ runs >= 1
    /\ N_pc \in Names(seeded_snaps) \cap Names(model_snaps)
    /\ N_pc \in Names(diff_added) \cap Names(diff_removed)
    /\ N_vlc \in Names(seeded_snaps) \cap Names(model_snaps)
    /\ N_vlc \notin Names(diff_added) \cup Names(diff_removed)

\* C8: when a snap of the filtered added set is unknown to the store, the
\* call raises nothing, appends no entry for it and returns its boolean.
C8_UnknownSnapSkipped ==
    (runs >= 1 /\ \E s \in added_snaps : get_snap_info(s.name) = NoInfo) =>
        /\ ~raised
        /\ \A s \in added_snaps :
             get_snap_info(s.name) = NoInfo =>
                 /\ Len(EntriesOf(model, s.name)) = Len(EntriesOf(after_remove[1], s.name))
                 /\ Len(EntriesOf(model_dangerous, s.name))
                       = Len(EntriesOf(after_remove[2], s.name))

\* C9: after a call that ran to its end with dry_run false and saved the
\* models, the next call, with the same seeds and store, returns False and
\* writes nothing.
C9_Convergence ==
    (runs >= 2 /\ prev.saved) =>
        /\ ~raised
        /\ ~changed
        /\ disk = disk_before

DistinctNames(m) ==
    \A i, j \in 1..Len(m.snaps) : m.snaps[i].name = m.snaps[j].name => i = j

\* C10: if the names of each model's snaps list are pairwise distinct when
\* the call loads it, they are pairwise distinct after the removal step and
\* the addition step.
C10_UniqueNames ==
    (runs >= 1 /\ ~raised /\ DistinctNames(loaded[1]) /\ DistinctNames(loaded[2])) =>
        DistinctNames(model) /\ DistinctNames(model_dangerous)

\* The names of the files the call read a document from, each with the slot
\* (1 the normal model, 2 the dangerous one) its document went to.
LoadedFrom ==
    {<<get_model_assertion_name(release, "amd64", dg), IF dg THEN 2 ELSE 1>> :
        dg \in {x \in BOOLEAN : loaded[IF x THEN 2 ELSE 1] # NoModel}}

\* The document of a slot as the call leaves it.
SlotDocument(i) == IF i = 1 THEN model ELSE model_dangerous

\* C11: in every run of check_snap_seeds each file written is one of the
\* files loaded in that run and holds the document loaded from it, as the
\* run edited it: its name has the release's series, the arch argument of
\* the call and the variant of the file read; every other file of the
\* repository is what it was before the call.
C11_LoadSaveConsistency ==
    (runs >= 1) =>
        /\ \A f \in written :
             /\ f[1] = get_model_assertion_name(release, arch, FALSE)[1]
             /\ f[2] = arch
             /\ \E lf \in LoadedFrom :
                  /\ lf[1] = f
                  /\ disk[f] = SlotDocument(lf[2])
        /\ \A f \in FileNames \ written : disk[f] = disk_before[f]

====
